---------------------------- MODULE Spec2Model ----------------------------
(***************************************************************************)
(* Spaced-repetition scheduler of the Study Suite: the CLI (src/study.py)  *)
(* and the web layer (src/webapp.py) working on one SQLite store.          *)
(*                                                                         *)
(* Units and encodings                                                     *)
(*   - time is counted in minutes.  `now` is the UTC clock that SQLite's   *)
(*     DATETIME('now') reads; Python's dt.datetime.now() reads the local   *)
(*     clock, now + utc_offset.  A `due` column holds whichever stamp the  *)
(*     writer produced and the queries compare the stamps as they are.     *)
(*   - ease is kept in hundredths (2.5 is 250).  Every ease the code can   *)
(*     produce from 2.5 is a multiple of 0.02, and Python's round() of     *)
(*     interval*ease is round-half-to-even on the float product.           *)
(*   - a TEXT column (tags, a tag filter) is a sequence of one-character   *)
(*     strings, so that LIKE and split(",") are computed, not assumed.     *)
(*   - suspended is 0/1 as in the cards table.                             *)
(***************************************************************************)
EXTENDS Integers, Sequences, FiniteSets, TLC

VARIABLES
    cards,      \* table cards: sequence of rows, row i has id i
    reviews,    \* table reviews: the ledger, in insertion order
    config,     \* table config: new_cap, learning_steps, leech_threshold
    now,        \* UTC wall clock, minutes
    utc_offset, \* local time minus UTC, minutes (fixed per host)
    session,    \* cmd_review: the rows of due_rows not yet presented
    call        \* a direct call of the pure Ease/Interval function

vars == <<cards, reviews, config, now, utc_offset, session, call>>

(***************************************************************************)
(* Bounds of the model                                                     *)
(***************************************************************************)
MaxCards == 1
MaxPool == 2
MaxReviews == 2
MaxPoolReviews == 1
MaxLimit == 2
MaxBulk == 11
MaxCallInterval == 7
MaxCallReps == 3
MaxCallEaseSteps == 10
MaxCallEase == 260

(***************************************************************************)
(* Program constants                                                       *)
(***************************************************************************)
DefaultNewCap == 20
DefaultLeechThreshold == 8
DefaultEase == 250
EaseFloor == 130
DayMinutes == 1440
InterleaveFetchFactor == 10

\* DEFAULT_CONFIG["learning_steps"], the text "[10, 1440]" once parsed
DefaultSteps == <<10, 1440>>

Min(a, b) == IF a < b THEN a ELSE b
Max(a, b) == IF a > b THEN a ELSE b

(***************************************************************************)
(* Text helpers                                                            *)
(***************************************************************************)
\* str.strip(): leading and trailing blanks removed
RECURSIVE LStrip(_)
LStrip(s) == IF s # <<>> /\ Head(s) = " " THEN LStrip(Tail(s)) ELSE s

RECURSIVE RStrip(_)
RStrip(s) ==
    IF s # <<>> /\ s[Len(s)] = " " THEN RStrip(SubSeq(s, 1, Len(s) - 1)) ELSE s

Strip(s) == LStrip(RStrip(s))

\* str.split(","): the pieces between commas, empty pieces kept
RECURSIVE SplitComma(_, _)
SplitComma(s, cur) ==
    IF s = <<>> THEN <<cur>>
    ELSE IF Head(s) = "," THEN <<cur>> \o SplitComma(Tail(s), <<>>)
    ELSE SplitComma(Tail(s), Append(cur, Head(s)))

RECURSIVE DropEmpty(_)
DropEmpty(ss) ==
    IF ss = <<>> THEN <<>>
    ELSE IF Head(ss) = <<>> THEN DropEmpty(Tail(ss))
    ELSE <<Head(ss)>> \o DropEmpty(Tail(ss))

StripAll(ss) == [i \in 1..Len(ss) |-> Strip(ss[i])]

\* parse_tags(s)
parse_tags(s) == IF s = <<>> THEN <<>> ELSE DropEmpty(StripAll(SplitComma(s, <<>>)))

\* SQLite folds ASCII case in LIKE
Lower(ch) == IF ch = "A" THEN "a" ELSE IF ch = "B" THEN "b" ELSE ch

LowerAll(s) == [i \in 1..Len(s) |-> Lower(s[i])]

\* column LIKE '%t%' for a pattern t without wildcard characters
Like(text, t) ==
    LET a == LowerAll(text)
        b == LowerAll(t)
    IN  \E i \in 0..(Len(a) - Len(b)) : SubSeq(a, i + 1, i + Len(b)) = b

(***************************************************************************)
(* Ease/Interval model                                                     *)
(***************************************************************************)
\* int(round(interval * ease)): round-half-to-even of n/100
PyRound(n) ==
    LET q == n \div 100
        r == n % 100
    IN  IF r > 50 \/ (r = 50 /\ q % 2 = 1) THEN q + 1 ELSE q

\* the ease change without its quadratic term
EaseDeltaLinear(q) == 10 - (5 - q) * 8

EaseDelta(q) == 10 - (5 - q) * (8 + (5 - q) * 2)

\* sm2_update with a failing grade also lowering the ease by 0.2
sm2_update_fail_penalty(ease, interval, reps, quality) ==
    LET q == Max(0, Min(5, quality))
    IN  IF q < 3
        THEN [ease |-> Max(EaseFloor, ease - 20), interval |-> 1, reps |-> 0]
        ELSE [ease |-> Max(EaseFloor, ease + EaseDelta(q)),
              interval |-> IF reps = 0 THEN 1
                           ELSE IF reps = 1 THEN 6
                           ELSE PyRound(interval * ease),
              reps |-> reps + 1]

\* sm2_update without "reps=0" on a failing grade
sm2_update_fail_keeps_reps(ease, interval, reps, quality) ==
    LET q == Max(0, Min(5, quality))
    IN  IF q < 3
        THEN [ease |-> ease, interval |-> 1, reps |-> reps]
        ELSE [ease |-> Max(EaseFloor, ease + EaseDelta(q)),
              interval |-> IF reps = 0 THEN 1
                           ELSE IF reps = 1 THEN 6
                           ELSE PyRound(interval * ease),
              reps |-> reps + 1]

\* sm2_update without its last line "if ease<1.3: ease=1.3"
sm2_update_unfloored(ease, interval, reps, quality) ==
    LET q == Max(0, Min(5, quality))
    IN  IF q < 3
        THEN [ease |-> ease, interval |-> 1, reps |-> 0]
        ELSE [ease |-> ease + EaseDelta(q),
              interval |-> IF reps = 0 THEN 1
                           ELSE IF reps = 1 THEN 6
                           ELSE PyRound(interval * ease),
              reps |-> reps + 1]

sm2_update(ease, interval, reps, quality) ==
    LET q == Max(0, Min(5, quality))
    IN  IF q < 3
        THEN [ease |-> ease, interval |-> 1, reps |-> 0]
        ELSE [ease |-> Max(EaseFloor, ease + EaseDelta(q)),
              interval |-> IF reps = 0 THEN 1
                           ELSE IF reps = 1 THEN 6
                           ELSE PyRound(interval * ease),
              reps |-> reps + 1]

\* the nested sm2 of the web rate endpoint
rate_sm2(ease, interval, reps, q0) ==
    LET q == Max(0, Min(5, q0))
    IN  IF q < 3
        THEN [ease |-> ease, interval |-> 1, reps |-> 0]
        ELSE [ease |-> Max(EaseFloor, ease + EaseDelta(q)),
              interval |-> IF reps = 0 THEN 1
                           ELSE IF reps = 1 THEN 6
                           ELSE PyRound(interval * ease),
              reps |-> reps + 1]

(***************************************************************************)
(* Configuration                                                           *)
(***************************************************************************)
\* A stored learning_steps text: one that json.loads turns into a list of
\* integers, or one it cannot parse.
StepsText(steps) == [malformed |-> FALSE, steps |-> steps]
MalformedText == [malformed |-> TRUE, steps |-> <<>>]

\* DEFAULT_CONFIG, as init_db stores it
DEFAULT_CONFIG ==
    [new_cap |-> DefaultNewCap,
     learning_steps |-> StepsText(DefaultSteps),
     leech_threshold |-> DefaultLeechThreshold]

\* get_config(con): every key is present once init_db has run
get_config(cfg) == cfg

\* json.loads(text): the list, or JSONDecodeError
json_loads(text) == [raised |-> text.malformed, value |-> text.steps]

\* get_learning_steps(con): falls back to [10,1440] on any exception
get_learning_steps(cfg) ==
    LET parsed == json_loads(get_config(cfg).learning_steps)
    IN  IF parsed.raised THEN <<10, 1440>> ELSE parsed.value

(***************************************************************************)
(* Due-set selection                                                       *)
(***************************************************************************)
\* WHERE clause of fetch_due_cards
DueClause(c, t, deck, tags) ==
    /\ c.suspended = 0
    /\ c.due <= t
    /\ (deck # "" => c.deck = deck)
    /\ (tags # <<>> => \A i \in 1..Len(tags) : Like(c.tags, tags[i]))

\* ORDER BY DATETIME(c.due) ASC, c.id ASC
RowBefore(a, b) == a.due < b.due \/ (a.due = b.due /\ a.id < b.id)

RECURSIVE OrderRows(_)
OrderRows(S) ==
    IF S = {} THEN <<>>
    ELSE LET first == CHOOSE a \in S : \A b \in S \ {a} : RowBefore(a, b)
         IN  <<first>> \o OrderRows(S \ {first})

\* LIMIT n and the slice [:n], for n >= 0
Take(s, n) == SubSeq(s, 1, Min(n, Len(s)))

\* the SELECT of fetch_due_cards
DueRows(tbl, t, limit, deck, tags, interleave) ==
    LET matching == {tbl[i] : i \in {j \in DOMAIN tbl : DueClause(tbl[j], t, deck, tags)}}
    IN  Take(OrderRows(matching),
             IF interleave # "" THEN limit * InterleaveFetchFactor ELSE limit)

\* the loop over rows with "new_count>new_cap" for "new_count>=new_cap"
RECURSIVE ApplyCapLate(_, _, _, _)
ApplyCapLate(rows, new_count, new_cap, include_new) ==
    IF rows = <<>> THEN <<>>
    ELSE LET r == Head(rows)
             is_new == (r.reps = 0 /\ include_new)
         IN  IF is_new /\ new_count > new_cap
             THEN ApplyCapLate(Tail(rows), new_count, new_cap, include_new)
             ELSE <<r>> \o ApplyCapLate(Tail(rows),
                                        IF is_new THEN new_count + 1 ELSE new_count,
                                        new_cap, include_new)

\* the new-card cap: the loop over rows
RECURSIVE ApplyCap(_, _, _, _)
ApplyCap(rows, new_count, new_cap, include_new) ==
    IF rows = <<>> THEN <<>>
    ELSE LET r == Head(rows)
             is_new == (r.reps = 0 /\ include_new)
         IN  IF is_new /\ new_count >= new_cap
             THEN ApplyCap(Tail(rows), new_count, new_cap, include_new)
             ELSE <<r>> \o ApplyCap(Tail(rows),
                                    IF is_new THEN new_count + 1 ELSE new_count,
                                    new_cap, include_new)

\* (parse_tags(r["tags"]) or [""])[0]
FirstTag(r) == LET ts == parse_tags(r.tags) IN IF ts = <<>> THEN <<>> ELSE ts[1]

\* buckets[t].append(r), buckets a dict in insertion order
RECURSIVE Bucketize(_, _)
Bucketize(rows, buckets) ==
    IF rows = <<>> THEN buckets
    ELSE LET r == Head(rows)
             t == FirstTag(r)
             hit == {i \in 1..Len(buckets) : buckets[i].key = t}
         IN  IF hit = {}
             THEN Bucketize(Tail(rows), Append(buckets, [key |-> t, rows |-> <<r>>]))
             ELSE LET i == CHOOSE k \in hit : TRUE
                  IN  Bucketize(Tail(rows),
                                [buckets EXCEPT ![i].rows = Append(@, r)])

\* one pass of "for k in list(buckets.keys())", from key number k on
RECURSIVE RobinPass(_, _, _, _)
RobinPass(buckets, order, k, limit) ==
    IF k > Len(buckets) THEN [buckets |-> buckets, order |-> order]
    ELSE LET popped == buckets[k].rows # <<>>
             b2 == IF popped THEN [buckets EXCEPT ![k].rows = Tail(@)] ELSE buckets
             o2 == IF popped THEN Append(order, Head(buckets[k].rows)) ELSE order
         IN  IF Len(o2) >= limit
             THEN [buckets |-> b2, order |-> o2]
             ELSE RobinPass(b2, o2, k + 1, limit)

\* while any(buckets.values()) and len(order) < limit
RECURSIVE RoundRobin(_, _, _)
RoundRobin(buckets, order, limit) ==
    IF (\A i \in 1..Len(buckets) : buckets[i].rows = <<>>) \/ Len(order) >= limit
    THEN order
    ELSE LET p == RobinPass(buckets, order, 1, limit)
         IN  RoundRobin(p.buckets, p.order, limit)

fetch_due_cards(tbl, cfg, t, limit, deck, tags, interleave, include_new) ==
    LET rows == DueRows(tbl, t, limit, deck, tags, interleave)
        new_cap == get_config(cfg).new_cap
        selected == ApplyCap(rows, 0, new_cap, include_new)
    IN  IF interleave = "tag"
        THEN RoundRobin(Bucketize(selected, <<>>), <<>>, limit)
        ELSE Take(selected, limit)

\* next_due_card of the web layer: the first due row, or none
next_due_card(tbl, t, deck, tag) ==
    LET matching == {tbl[i] : i \in {j \in DOMAIN tbl :
                        /\ tbl[j].suspended = 0
                        /\ tbl[j].due <= t
                        /\ (deck # "" => tbl[j].deck = deck)
                        /\ (tag # <<>> => Like(tbl[j].tags, tag))}}
    IN  Take(OrderRows(matching), 1)

(***************************************************************************)
(* Grading                                                                 *)
(***************************************************************************)
\* steps[i+1] where the code reads steps[i]: the delay of the step entered
\* rather than of the step completed
PyIndexNext(seq, i) == seq[Min(i + 2, Len(seq))]

\* steps[i] with Python's 0-based index i >= 0
PyIndex(seq, i) == seq[i + 1]

Raised(exc) == [raised |-> exc, row |-> <<>>, suspended |-> 0]

\* update_schedule(con, r, quality) up to the transaction: the values it is
\* about to write, or the exception it dies with.  dtnow is dt.datetime.now().
update_schedule(cfg, r, quality, dtnow) ==
    LET parsed == json_loads(get_config(cfg).learning_steps)
        steps == parsed.value
        in_learning == (r.reps = 0 \/ r.learning_step_index < Len(steps))
        sm == sm2_update(r.ease, r.interval, r.reps, quality)
        leech_threshold == get_config(cfg).leech_threshold
        Done(ease, interval, reps, lapses, step_idx, due) ==
            LET suspended == IF lapses >= leech_threshold THEN 1 ELSE r.suspended
            IN  [raised |-> "",
                 row |-> [ease |-> ease, interval |-> interval, reps |-> reps,
                          lapses |-> lapses, learning_step_index |-> step_idx,
                          due |-> due, suspended |-> suspended],
                 suspended |-> suspended]
    IN  IF parsed.raised THEN Raised("JSONDecodeError")
        ELSE IF in_learning
        THEN IF quality >= 3
             THEN IF r.learning_step_index + 1 >= Len(steps)
                  THEN Done(sm.ease, sm.interval, sm.reps, r.lapses, Len(steps),
                            dtnow + sm.interval * DayMinutes)
                  ELSE Done(r.ease, r.interval, r.reps, r.lapses,
                            r.learning_step_index + 1,
                            dtnow + PyIndex(steps, (r.learning_step_index + 1) - 1))
             ELSE IF steps = <<>> THEN Raised("IndexError")
                  ELSE Done(r.ease, r.interval, r.reps, r.lapses + 1, 0,
                            dtnow + PyIndex(steps, 0))
        ELSE Done(sm.ease, sm.interval, sm.reps,
                  IF quality < 3 THEN r.lapses + 1 ELSE r.lapses,
                  r.learning_step_index, dtnow + sm.interval * DayMinutes)

\* the values the web rate endpoint is about to write for row r
rate_values(r, quality, dtnow) ==
    LET sm == rate_sm2(r.ease, r.interval, r.reps, quality)
    IN  [ease |-> sm.ease, interval |-> sm.interval, reps |-> sm.reps,
         lapses |-> IF quality < 3 THEN r.lapses + 1 ELSE r.lapses,
         due |-> dtnow + sm.interval * DayMinutes]

\* the UPDATE of update_schedule without "learning_step_index=?"
UpdateScheduleRowNoIndex(tbl, id, v) ==
    [i \in DOMAIN tbl |->
        IF tbl[i].id = id
        THEN [tbl[i] EXCEPT !.ease = v.ease, !.interval = v.interval,
                            !.reps = v.reps, !.lapses = v.lapses,
                            !.due = v.due, !.suspended = v.suspended]
        ELSE tbl[i]]

\* the UPDATE of update_schedule without "suspended=?"
UpdateScheduleRowNoSuspended(tbl, id, v) ==
    [i \in DOMAIN tbl |->
        IF tbl[i].id = id
        THEN [tbl[i] EXCEPT !.ease = v.ease, !.interval = v.interval,
                            !.reps = v.reps, !.lapses = v.lapses,
                            !.learning_step_index = v.learning_step_index,
                            !.due = v.due]
        ELSE tbl[i]]

\* UPDATE cards SET ... WHERE id=? of update_schedule
UpdateScheduleRow(tbl, id, v) ==
    [i \in DOMAIN tbl |->
        IF tbl[i].id = id
        THEN [tbl[i] EXCEPT !.ease = v.ease, !.interval = v.interval,
                            !.reps = v.reps, !.lapses = v.lapses,
                            !.learning_step_index = v.learning_step_index,
                            !.due = v.due, !.suspended = v.suspended]
        ELSE tbl[i]]

\* UPDATE cards SET ... WHERE id=? of rate
UpdateRateRow(tbl, id, v) ==
    [i \in DOMAIN tbl |->
        IF tbl[i].id = id
        THEN [tbl[i] EXCEPT !.ease = v.ease, !.interval = v.interval,
                            !.reps = v.reps, !.lapses = v.lapses, !.due = v.due]
        ELSE tbl[i]]

\* SQL NULL in an integer column
Null == -1

\* INSERT INTO reviews(card_id, quality, confidence, duration_sec): the CLI
\* stores the whole seconds the answer took (none at the clock's resolution),
\* the web layer leaves duration_sec NULL; confidence is optional on both.
InsertReview(ledger, id, quality, duration_sec) ==
    Append(ledger, [card_id |-> id, quality |-> quality, duration_sec |-> duration_sec])

\* the two statements each committed on its own: a failing INSERT leaves the
\* UPDATE in place
WithConNoRollback(before, updated, inserted, failed_at) ==
    IF failed_at = 0 THEN inserted
    ELSE IF failed_at = 2 THEN updated
    ELSE before

\* "with con:" around the UPDATE and the INSERT.  failed_at names the
\* statement at which the store raised (0: none, 1: the UPDATE, 2: the INSERT);
\* the context manager commits on success and rolls back on an exception.
WithCon(before, updated, inserted, failed_at) ==
    IF failed_at = 0 THEN inserted ELSE before

Store(tbl, ledger) == [cards |-> tbl, reviews |-> ledger]

(***************************************************************************)
(* The state machine                                                       *)
(***************************************************************************)
NoCall == [fn |-> "", ease |-> 0, interval |-> 0, reps |-> 0, quality |-> 0,
           fed |-> FALSE, done |-> FALSE,
           out |-> [ease |-> 0, interval |-> 0, reps |-> 0]]

\* a row as the INSERTs of cmd_add and create_card leave it
NewCard(id, deck, tags, due) ==
    [id |-> id, deck |-> deck, tags |-> tags, ease |-> DefaultEase, interval |-> 0,
     reps |-> 0, lapses |-> 0, learning_step_index |-> 0, due |-> due, suspended |-> 0]

\* the store after init_db: no cards, no reviews, the default configuration
InitStore(I) ==
    /\ utc_offset \in I.offsets
    /\ call = NoCall
    /\ cards = <<>>
    /\ reviews = <<>>
    /\ config = DEFAULT_CONFIG
    /\ now = 0
    /\ session = <<>>

\* cmd_add: due defaults to DATETIME('now')
cmd_add(deck, tags, room) ==
    /\ Len(cards) < room
    /\ cards' = Append(cards, NewCard(Len(cards) + 1, deck, tags, now))
    /\ UNCHANGED <<reviews, config, now, utc_offset, session, call>>

\* create_card of the web layer: due is a local-clock stamp
create_card(deck, tags, mark_due_today, room) ==
    /\ Len(cards) < room
    /\ cards' = Append(cards,
                       NewCard(Len(cards) + 1, deck, Strip(tags),
                               IF mark_due_today THEN now + utc_offset
                               ELSE now + utc_offset + DayMinutes))
    /\ UNCHANGED <<reviews, config, now, utc_offset, session, call>>

\* the clock moves on to the next stamp at which some card falls due
Tick ==
    /\ \E i \in DOMAIN cards :
          /\ cards[i].due > now
          /\ now' = cards[i].due
    /\ UNCHANGED <<cards, reviews, config, utc_offset, session, call>>

\* one key=value of "config --set": the text of a step list, or a number
SetSteps(text) == [key |-> "learning_steps", text |-> text, n |-> 0]
SetNumber(key, n) == [key |-> key, text |-> MalformedText, n |-> n]

\* set_config with one key=value
set_config(u) ==
    /\ config' = IF u.key = "learning_steps"
                 THEN [config EXCEPT !.learning_steps = u.text]
                 ELSE [config EXCEPT ![u.key] = u.n]
    /\ UNCHANGED <<cards, reviews, now, utc_offset, session, call>>

\* a cmd_review whose selection reserves the rows it returns by pushing
\* their due stamp past the clock
cmd_review_reserving(limit, deck, tags, interleave, include_new) ==
    /\ session = <<>>
    /\ LET rows == fetch_due_cards(cards, config, now, limit, deck, tags,
                                   interleave, include_new)
       IN  /\ session' = rows
           /\ cards' = [i \in DOMAIN cards |->
                           IF \E k \in DOMAIN rows : rows[k].id = cards[i].id
                           THEN [cards[i] EXCEPT !.due = now + 1]
                           ELSE cards[i]]
    /\ UNCHANGED <<reviews, config, now, utc_offset, call>>

\* cmd_review up to its first prompt: the session's rows are fetched once
cmd_review(limit, deck, tags, interleave, include_new) ==
    /\ session = <<>>
    /\ session' = fetch_due_cards(cards, config, now, limit, deck, tags,
                                  interleave, include_new)
    /\ UNCHANGED <<cards, reviews, config, now, utc_offset, call>>

\* cmd_review, one card answered with 1..4: update_schedule on the fetched row
cmd_review_grade(quality, failed_at) ==
    /\ session # <<>>
    /\ LET r == Head(session)
           res == update_schedule(config, r, quality, now + utc_offset)
           before == Store(cards, reviews)
           updated == Store(UpdateScheduleRow(cards, r.id, res.row), reviews)
           inserted == Store(updated.cards, InsertReview(reviews, r.id, quality, 0))
       IN  IF res.raised # ""
           THEN /\ UNCHANGED <<cards, reviews>>
                /\ session' = <<>>
           ELSE LET after == WithCon(before, updated, inserted, failed_at)
                IN  /\ cards' = after.cards
                    /\ reviews' = after.reviews
                    /\ session' = IF failed_at = 0 THEN Tail(session) ELSE <<>>
    /\ UNCHANGED <<config, now, utc_offset, call>>

\* cmd_review answered with q: the session ends
cmd_review_quit ==
    /\ session # <<>>
    /\ session' = <<>>
    /\ UNCHANGED <<cards, reviews, config, now, utc_offset, call>>

\* POST /rate/{card_id}
rate(card_id, quality, failed_at) ==
    /\ IF card_id \notin DOMAIN cards
       THEN /\ UNCHANGED <<cards, reviews>>
       ELSE LET r == cards[card_id]
                v == rate_values(r, quality, now + utc_offset)
                before == Store(cards, reviews)
                updated == Store(UpdateRateRow(cards, card_id, v), reviews)
                inserted == Store(updated.cards, InsertReview(reviews, card_id, quality, Null))
                after == WithCon(before, updated, inserted, failed_at)
            IN  /\ cards' = after.cards
                /\ reviews' = after.reviews
    /\ UNCHANGED <<config, now, utc_offset, session, call>>

\* cmd_suspend(args, value): suspend and unsuspend
cmd_suspend(card_id, value) ==
    /\ cards' = [i \in DOMAIN cards |->
                    IF cards[i].id = card_id
                    THEN [cards[i] EXCEPT !.suspended = IF value THEN 1 ELSE 0]
                    ELSE cards[i]]
    /\ UNCHANGED <<reviews, config, now, utc_offset, session, call>>

(***************************************************************************)
(* The system under a choice I of input sets: every operation of the CLI   *)
(* and of the web layer that reads or writes scheduling state.  The web    *)
(* server and CLI commands run as separate processes on the same store, so *)
(* their operations interleave with an open review session.                *)
(***************************************************************************)
FailurePoints == {0, 1, 2}

SystemNext(I) ==
    \/ \E d \in I.decks, t \in I.tags : cmd_add(d, t, I.room)
    \/ \E d \in I.decks, t \in I.tags, m \in I.mark_due : create_card(d, t, m, I.room)
    \/ Tick
    \/ \E u \in I.updates : set_config(u)
    \/ \E a \in I.args :
          cmd_review(a.limit, a.deck, a.tags, a.interleave, a.include_new)
    \/ /\ Len(reviews) < I.gradings
       /\ \E q \in I.cli_q, f \in FailurePoints : cmd_review_grade(q, f)
    \/ cmd_review_quit
    \/ /\ Len(reviews) < I.gradings
       /\ \E c \in 1..I.room, q \in I.web_q, f \in FailurePoints : rate(c, q, f)
    \/ \E c \in 1..I.room, v \in BOOLEAN : cmd_suspend(c, v)

PlainArgs == [limit |-> MaxLimit, deck |-> "", tags |-> <<>>, interleave |-> "",
              include_new |-> TRUE]

(***************************************************************************)
(* Spec: grading on both paths with the leech threshold reconfigured       *)
(***************************************************************************)
LeechInputs ==
    [room |-> MaxCards, gradings |-> MaxReviews, offsets |-> {0}, decks |-> {"A"},
     tags |-> {<<>>}, mark_due |-> {TRUE},
     updates |-> {SetNumber("leech_threshold", 1), SetNumber("leech_threshold", 2)},
     args |-> {PlainArgs},
     cli_q |-> {2, 4}, web_q |-> {2, 4, 6}]

Init == InitStore(LeechInputs)

Next == SystemNext(LeechInputs)

Spec == Init /\ [][Next]_vars

(***************************************************************************)
(* SpecSteps: grading with the learning-step list reconfigured             *)
(***************************************************************************)
StepInputs ==
    [room |-> MaxCards, gradings |-> MaxReviews, offsets |-> {0}, decks |-> {"A"},
     tags |-> {<<>>}, mark_due |-> {TRUE},
     updates |-> {SetSteps(MalformedText), SetSteps(StepsText(<<>>)),
                  SetSteps(StepsText(<<10>>)), SetSteps(StepsText(<<10, 60, 1440>>))},
     args |-> {PlainArgs},
     cli_q |-> {2, 4}, web_q |-> {4}]

InitSteps == InitStore(StepInputs)

NextSteps == SystemNext(StepInputs)

SpecSteps == InitSteps /\ [][NextSteps]_vars

(***************************************************************************)
(* SpecSelect: due-set selection over a pool of tagged cards, new and      *)
(* reviewed, with the new-card cap reconfigured                            *)
(***************************************************************************)
SelectArgs ==
    {[limit |-> l, deck |-> "", tags |-> <<>>, interleave |-> m, include_new |-> n] :
        l \in 1..MaxLimit, m \in {"", "tag"}, n \in BOOLEAN}

SelectInputs ==
    [room |-> MaxPool, gradings |-> MaxPoolReviews, offsets |-> {0}, decks |-> {"A"},
     tags |-> {<<"a">>, <<"b">>},
     mark_due |-> {TRUE},
     updates |-> {SetNumber("new_cap", 0), SetNumber("new_cap", 1)},
     args |-> SelectArgs,
     cli_q |-> {4}, web_q |-> {4}]

InitSelect == InitStore(SelectInputs)

NextSelect == SystemNext(SelectInputs)

SpecSelect == InitSelect /\ [][NextSelect]_vars

(***************************************************************************)
(* SpecTags: due-set selection with deck and tag filters over cards of two *)
(* decks whose tag texts share a prefix                                    *)
(***************************************************************************)
TagArgs ==
    {[limit |-> MaxLimit, deck |-> d, tags |-> t, interleave |-> "", include_new |-> TRUE] :
        d \in {"", "B"}, t \in {<<>>, << <<"a">> >>}}

TagInputs ==
    [room |-> MaxPool, gradings |-> MaxPoolReviews, offsets |-> {0}, decks |-> {"A", "B"},
     tags |-> {<<"a">>, <<"a", "b">>},
     mark_due |-> {TRUE},
     updates |-> {SetNumber("new_cap", 1)},
     args |-> TagArgs,
     cli_q |-> {4}, web_q |-> {4}]

InitTags == InitStore(TagInputs)

NextTags == SystemNext(TagInputs)

SpecTags == InitTags /\ [][NextTags]_vars

(***************************************************************************)
(* SpecBulk: tag-interleaved selection of one card from a pool that grows  *)
(* past the rows the interleaved query fetches, with the new-card cap at 0 *)
(***************************************************************************)
BulkArgs ==
    {[limit |-> 1, deck |-> "", tags |-> <<>>, interleave |-> "tag", include_new |-> TRUE]}

InitBulk ==
    /\ utc_offset = 0
    /\ call = NoCall
    /\ cards = <<>>
    /\ reviews = <<>>
    /\ config = DEFAULT_CONFIG
    /\ now = 0
    /\ session = <<>>

NextBulk ==
    \/ cmd_add("A", <<"a">>, MaxBulk)
    \/ Tick
    \/ set_config(SetNumber("new_cap", 0))
    \/ \E a \in BulkArgs :
          cmd_review(a.limit, a.deck, a.tags, a.interleave, a.include_new)
    \/ cmd_review_quit
    \/ /\ Len(reviews) < MaxPoolReviews
       /\ \E c \in 1..MaxBulk : rate(c, 4, 0)

SpecBulk == InitBulk /\ [][NextBulk]_vars

(***************************************************************************)
(* SpecResuspend: leeches unsuspended and graded again, in learning and    *)
(* graduated (the empty step list graduates a card at its first pass)      *)
(***************************************************************************)
ResuspendInputs ==
    [room |-> MaxCards, gradings |-> MaxReviews + 2, offsets |-> {0}, decks |-> {"A"},
     tags |-> {<<>>}, mark_due |-> {TRUE},
     updates |-> {SetNumber("leech_threshold", 1), SetSteps(StepsText(<<>>))},
     args |-> {PlainArgs},
     cli_q |-> {2, 4}, web_q |-> {}]

\* the store after init_db and "config --set leech_threshold=1", which no
\* later input of this specification changes
InitResuspend ==
    /\ utc_offset \in ResuspendInputs.offsets
    /\ call = NoCall
    /\ cards = <<>>
    /\ reviews = <<>>
    /\ config = [DEFAULT_CONFIG EXCEPT !.leech_threshold = 1]
    /\ now = 0
    /\ session = <<>>

\* the CLI alone: add, config, review with its answers and quit, suspend and
\* unsuspend
NextResuspend ==
    \/ \E d \in ResuspendInputs.decks, t \in ResuspendInputs.tags :
          cmd_add(d, t, ResuspendInputs.room)
    \/ Tick
    \/ \E u \in ResuspendInputs.updates : set_config(u)
    \/ \E a \in ResuspendInputs.args :
          cmd_review(a.limit, a.deck, a.tags, a.interleave, a.include_new)
    \/ /\ Len(reviews) < ResuspendInputs.gradings
       /\ \E q \in ResuspendInputs.cli_q : cmd_review_grade(q, 0)
    \/ cmd_review_quit
    \/ \E c \in 1..ResuspendInputs.room, v \in BOOLEAN : cmd_suspend(c, v)

SpecResuspend == InitResuspend /\ [][NextResuspend]_vars

(***************************************************************************)
(* SpecSm2: the Ease/Interval function called directly, on arguments drawn *)
(* from bounded sets and on the triples earlier calls returned, the way a  *)
(* card's stored ease, interval and reps are the next grading's arguments  *)
(***************************************************************************)
CallEases == {EaseFloor + 2 * k : k \in 0..MaxCallEaseSteps} \cup {DefaultEase}

CallGrades == -1..6

\* interval*ease lies exactly halfway between two integers
HalfWay(interval, ease) == (interval * ease) % 100 = 50

\* The arguments of a call.  An ease that earlier additions produced is a
\* double a few ulps off its hundredth; when interval*ease is halfway, which
\* side round() sees is not a function of the hundredth, and no call is made.
Callable(quality) ==
    /\ ~call.done
    /\ ~(/\ call.fed
         /\ quality >= 3
         /\ call.reps >= 2
         /\ HalfWay(call.interval, call.ease))

CallSm2Update(quality) ==
    /\ Callable(quality)
    /\ call' = [call EXCEPT !.fn = "sm2_update", !.quality = quality, !.done = TRUE,
                            !.out = sm2_update(call.ease, call.interval, call.reps,
                                               quality)]
    /\ UNCHANGED <<cards, reviews, config, now, utc_offset, session>>

CallRateSm2(quality) ==
    /\ Callable(quality)
    /\ call' = [call EXCEPT !.fn = "rate.sm2", !.quality = quality, !.done = TRUE,
                            !.out = rate_sm2(call.ease, call.interval, call.reps,
                                             quality)]
    /\ UNCHANGED <<cards, reviews, config, now, utc_offset, session>>

\* the returned triple is what the card now stores: the next call's arguments
Feed ==
    /\ call.done
    /\ call.out.interval <= MaxCallInterval
    /\ call.out.reps <= MaxCallReps
    /\ call.out.ease <= MaxCallEase
    /\ call' = [NoCall EXCEPT !.ease = call.out.ease, !.interval = call.out.interval,
                              !.reps = call.out.reps, !.fed = TRUE]
    /\ UNCHANGED <<cards, reviews, config, now, utc_offset, session>>

InitSm2 ==
    /\ call \in {[NoCall EXCEPT !.ease = e, !.interval = i, !.reps = r] :
                    e \in CallEases, i \in 0..MaxCallInterval, r \in 0..MaxCallReps}
    /\ cards = <<>>
    /\ reviews = <<>>
    /\ config = DEFAULT_CONFIG
    /\ now = 0
    /\ utc_offset = 0
    /\ session = <<>>

NextSm2 ==
    \/ \E q \in CallGrades : CallSm2Update(q)
    \/ \E q \in CallGrades : CallRateSm2(q)
    \/ Feed

SpecSm2 == InitSm2 /\ [][NextSm2]_vars

(***************************************************************************)
(* Vocabulary of the properties                                            *)
(***************************************************************************)
\* this step committed a grading of card c: one event for c joined the ledger
Graded(c) ==
    /\ Len(reviews') = Len(reviews) + 1
    /\ reviews'[Len(reviews')].card_id = c

\* the grade of the grading this step committed
GradeGiven == reviews'[Len(reviews')].quality

\* the grading this step committed went through update_schedule (the CLI
\* stores the answer's duration) or through the rate endpoint (it stores NULL)
ByUpdateSchedule == reviews'[Len(reviews')].duration_sec # Null
ByRate == reviews'[Len(reviews')].duration_sec = Null

\* the open review session still holds a fetched row of card c
Pending(c) == \E i \in DOMAIN session : session[i].id = c

\* this step is an explicit unsuspend of card c
Unsuspends(c) == cmd_suspend(c, FALSE)

\* the scheduling fields of a card row
Sched(r) == <<r.ease, r.interval, r.reps, r.lapses, r.learning_step_index, r.due>>

\* the rows with reps = 0 in a selection
NewCount(rows) == Cardinality({i \in DOMAIN rows : rows[i].reps = 0})

\* the selection a review started now with arguments a would make
Selection(a) ==
    fetch_due_cards(cards, config, now, a.limit, a.deck, a.tags, a.interleave,
                    a.include_new)

\* the same call made on the store and clock this step leaves
SelectionAfter(a) ==
    fetch_due_cards(cards', config', now', a.limit, a.deck, a.tags, a.interleave,
                    a.include_new)

\* the configuration read with [10, 1440] in place of the stored step list
FallbackConfig == [config EXCEPT !.learning_steps = StepsText(<<10, 1440>>)]

\* the cards a selection may draw from: due, not suspended, never passed
DueNew == {c \in DOMAIN cards :
              cards[c].suspended = 0 /\ cards[c].due <= now /\ cards[c].reps = 0}

(***************************************************************************)
(* C1: after every grading action on a card, by update_schedule or by the  *)
(* web rate endpoint, a resulting lapse count at or above the configured   *)
(* leech threshold means the card is suspended.                            *)
(***************************************************************************)
C1_LeechSuspendsAfterEveryGrading ==
    [][\A c \in DOMAIN cards :
          (Graded(c) /\ cards'[c].lapses >= config.leech_threshold)
              => cards'[c].suspended = 1]_vars

(***************************************************************************)
(* C2: a card one lapse short of the threshold and not suspended stays     *)
(* unsuspended on a passing grade and is suspended by one failing grade;   *)
(* once suspended it is returned by no due-set selection, and nothing but  *)
(* an explicit unsuspend clears the flag.                                  *)
(***************************************************************************)
C2_LeechExcludedHenceforth ==
    [][/\ \A c \in DOMAIN cards :
            /\ (/\ Graded(c)
                /\ cards[c].lapses = config.leech_threshold - 1
                /\ cards[c].suspended = 0)
               => cards'[c].suspended = (IF GradeGiven < 3 THEN 1 ELSE 0)
            /\ (cards[c].suspended = 1 /\ ~Pending(c) /\ ~Unsuspends(c))
               => cards'[c].suspended = 1
       /\ (session = <<>> /\ session' # <<>>)
            => \A i \in DOMAIN session' : cards[session'[i].id].suspended = 0]_vars

(***************************************************************************)
(* C3: whatever the pool, the cap and the limit, a selection made with     *)
(* include_new true holds at most new_cap cards with reps = 0, in the      *)
(* plain and in the tag-interleaved mode.                                  *)
(***************************************************************************)
C3_NewCardCap ==
    \A a \in SelectArgs :
        a.include_new => NewCount(Selection(a)) <= get_config(config).new_cap

\* a review session opened on a pool with more due new cards than the cap
\* admits, in tag-interleaved mode, and holds exactly the cap
C3_CapBites ==
    /\ get_config(config).new_cap > 0
    /\ Cardinality(DueNew) > get_config(config).new_cap
    /\ \E a \in SelectArgs :
          /\ a.include_new
          /\ a.interleave = "tag"
          /\ session = Selection(a)
          /\ NewCount(session) = get_config(config).new_cap

(***************************************************************************)
(* C4: a selection made with include_new false returns no card with        *)
(* reps = 0, whatever the configured cap.                                  *)
(***************************************************************************)
C4_NoNewWhenExcluded ==
    \A a \in SelectArgs :
        ~a.include_new => NewCount(Selection(a)) = 0

(***************************************************************************)
(* C5: due-set selection is read-only and repeatable: the step in which a  *)
(* review fetches its rows changes no card, review or config row, and a    *)
(* second call with the same arguments on the store it leaves returns the  *)
(* same ordered sequence.                                                  *)
(***************************************************************************)
C5_SelectionReadOnlyRepeatable ==
    [][(session = <<>> /\ session' # <<>>)
          => /\ UNCHANGED <<cards, reviews, config>>
             /\ \E a \in SelectArgs :
                   /\ session' = Selection(a)
                   /\ session' = SelectionAfter(a)]_vars

\* a session holding the two rows a tag-interleaved selection returned
C5_SessionFetched ==
    /\ Len(session) = 2
    /\ \E a \in SelectArgs : a.interleave = "tag" /\ session = Selection(a)

(***************************************************************************)
(* C6: the card update and the event append are one unit.  The ledger only *)
(* grows, by one event a step, and no event is modified or removed; a      *)
(* card's scheduling fields change only in the step that appends its event *)
(* and that step leaves the card with the values the grading wrote, so the *)
(* events of a card count the updates applied to it; a grading whose       *)
(* UPDATE or INSERT fails leaves cards and ledger as they were.            *)
(***************************************************************************)
C6_UpdateAndEventAtomic ==
    [][/\ Len(reviews') \in {Len(reviews), Len(reviews) + 1}
       /\ SubSeq(reviews', 1, Len(reviews)) = reviews
       /\ \A c \in DOMAIN cards :
             /\ Sched(cards'[c]) # Sched(cards[c]) => Graded(c)
             /\ (Graded(c) /\ ByRate)
                   => cards' = UpdateRateRow(cards, c,
                                   rate_values(cards[c], GradeGiven, now + utc_offset))
             /\ (Graded(c) /\ ByUpdateSchedule)
                   => /\ session # <<>>
                      /\ Head(session).id = c
                      /\ cards' = UpdateScheduleRow(cards, c,
                                      update_schedule(config, Head(session), GradeGiven,
                                                      now + utc_offset).row)
       /\ \/ UNCHANGED <<cards, reviews>>
          \/ \A f \in FailurePoints \ {0} :
                /\ \A q \in LeechInputs.cli_q : ~cmd_review_grade(q, f)
                /\ \A c \in 1..LeechInputs.room, q \in LeechInputs.web_q :
                      ~rate(c, q, f)]_vars

\* the ledger holds an event of each grading path and the graded card
\* carries an update
C6_BothPathsCommitted ==
    \E i, j \in DOMAIN reviews :
        /\ reviews[i].duration_sec = Null
        /\ reviews[j].duration_sec # Null
        /\ cards[reviews[i].card_id].lapses + cards[reviews[i].card_id].reps > 0

(***************************************************************************)
(* C7: a grading request with a grade outside 0..5 is rejected before any  *)
(* mutation: no card field changes and no event is appended, through       *)
(* update_schedule and through the rate endpoint.                          *)
(***************************************************************************)
C7_InvalidGradeRejected ==
    [][\A q \in (LeechInputs.cli_q \cup LeechInputs.web_q) \ (0..5) :
          \A f \in FailurePoints :
             /\ cmd_review_grade(q, f) => UNCHANGED <<cards, reviews>>
             /\ \A c \in 1..LeechInputs.room :
                   rate(c, q, f) => UNCHANGED <<cards, reviews>>]_vars

(***************************************************************************)
(* C8: with a stored learning_steps value that does not parse, grading a   *)
(* card does not fail: the step list [10, 1440] is used, the card is       *)
(* updated and one event is appended.                                      *)
(***************************************************************************)
C8_MalformedStepsFallBack ==
    [][get_config(config).learning_steps.malformed =>
          /\ \A q \in StepInputs.cli_q :
                cmd_review_grade(q, 0)
                   => /\ Len(reviews') = Len(reviews) + 1
                      /\ cards' = UpdateScheduleRow(cards, Head(session).id,
                                      update_schedule(FallbackConfig, Head(session), q,
                                                      now + utc_offset).row)
          /\ \A c \in DOMAIN cards, q \in StepInputs.web_q :
                rate(c, q, 0) => Len(reviews') = Len(reviews) + 1]_vars

(***************************************************************************)
(* C9: ease never drops below 1.3: for every argument ease >= 1.3 and any  *)
(* grade the returned ease is >= 1.3, through sm2_update and through the   *)
(* rate endpoint's sm2, and so is every ease a chain of gradings from a    *)
(* new card (ease 2.5) stores.                                             *)
(***************************************************************************)
C9_EaseFloorHolds ==
    /\ call.ease >= EaseFloor
    /\ call.done => call.out.ease >= EaseFloor

\* a call on an ease earlier calls returned, which the grade would take below
\* 1.3, returned exactly 1.3
C9_FloorEngaged ==
    /\ call.done
    /\ call.fed
    /\ call.quality = 3
    /\ call.ease + EaseDelta(3) < EaseFloor
    /\ call.out.ease = EaseFloor

(***************************************************************************)
(* C10: in every reachable state, after any gradings and configuration     *)
(* updates, a shorter step list included, each card's learning-step index  *)
(* is at most the length of the step list now configured.                  *)
(***************************************************************************)
C10_StepIndexWithinList ==
    \A c \in DOMAIN cards :
        cards[c].learning_step_index <= Len(get_learning_steps(config))

(***************************************************************************)
(* Vocabulary of the Ease/Interval properties                              *)
(***************************************************************************)
\* the grade after max(0, min(5, q))
Clamp(q) == Max(0, Min(5, q))

\* n/100 rounded to a whole number, a half rounded up
HalfUp(n) == (n + 50) \div 100

\* the arguments of the call now held in call
CallArgs == [ease |-> call.ease, interval |-> call.interval, reps |-> call.reps]

(***************************************************************************)
(* C11: for ease >= 1.3, interval >= 0, reps >= 0 and a grade that clamps  *)
(* below 3, the Ease/Interval update returns reps 0, interval 1 and the    *)
(* ease it was given, through sm2_update and through the rate endpoint's   *)
(* sm2.                                                                    *)
(***************************************************************************)
C11_FailResets ==
    (call.done /\ Clamp(call.quality) < 3)
        => call.out = [ease |-> call.ease, interval |-> 1, reps |-> 0]

\* a failing call on a card with repetitions and an interval of several days
C11_FailedMatureCall ==
    /\ call.done
    /\ Clamp(call.quality) < 3
    /\ call.reps >= 2
    /\ call.interval > 1
    /\ call.ease > EaseFloor
    /\ call.out.reps = 0

(***************************************************************************)
(* C12: on a passing grade the update returns reps + 1 and the interval 1  *)
(* for reps 0, 6 for reps 1, and otherwise interval x ease rounded to      *)
(* whole days with a half rounded up, also where interval x ease is        *)
(* exactly a half-integer.                                                 *)
(***************************************************************************)
C12_PassRoundsHalfUp ==
    (call.done /\ Clamp(call.quality) >= 3)
        => /\ call.out.reps = call.reps + 1
           /\ call.out.interval = IF call.reps = 0 THEN 1
                                  ELSE IF call.reps = 1 THEN 6
                                  ELSE HalfUp(call.interval * call.ease)

(***************************************************************************)
(* C13: for ease 2.5, interval 0, reps 0 and grade 4 the update returns an *)
(* ease of about 2.6, interval 1 and reps 1.                               *)
(***************************************************************************)
C13_EasyRaisesEase ==
    (/\ call.done
     /\ CallArgs = [ease |-> DefaultEase, interval |-> 0, reps |-> 0]
     /\ call.quality = 4)
        => /\ call.out.ease \in (DefaultEase + 5)..(DefaultEase + 15)
           /\ call.out.interval = 1
           /\ call.out.reps = 1

\* C13 as amended: for ease 2.5, interval 0, reps 0 and grade 4 the update
\* returns the ease unchanged, 2.5, with interval 1 and reps 1.
C13_EasyKeepsEase ==
    (/\ call.done
     /\ CallArgs = [ease |-> DefaultEase, interval |-> 0, reps |-> 0]
     /\ call.quality = 4)
        => call.out = [ease |-> DefaultEase, interval |-> 1, reps |-> 1]

\* the call of the scenario has returned
C13_EasyCallMade ==
    /\ call.done
    /\ CallArgs = [ease |-> DefaultEase, interval |-> 0, reps |-> 0]
    /\ call.quality = 4
    /\ call.out.reps = 1

(***************************************************************************)
(* Vocabulary of the learning-step properties                              *)
(***************************************************************************)
\* the step list update_schedule reads in this state
Steps == json_loads(get_config(config).learning_steps).value

\* in_learning of update_schedule, for a row r and a step list
InLearning(r, steps) == r.reps = 0 \/ r.learning_step_index < Len(steps)

\* this step committed a grading by update_schedule of the row the review
\* session presented
CliGraded ==
    /\ session # <<>>
    /\ Graded(Head(session).id)
    /\ ByUpdateSchedule

\* the card that row belongs to, and dt.datetime.now() of the grading; a
\* Python list's element k is the sequence's element k + 1
Presented == Head(session).id
LocalNow == now + utc_offset

(***************************************************************************)
(* C14: for a card in Learning with step list S of length L, a passing     *)
(* grade that leaves stepIndex + 1 < L keeps the card in Learning, raises  *)
(* stepIndex by exactly 1 and sets due = now + S[old stepIndex] minutes.   *)
(***************************************************************************)
C14_LearningPassAdvances ==
    [][(/\ CliGraded
        /\ InLearning(cards[Presented], Steps)
        /\ GradeGiven >= 3
        /\ cards[Presented].learning_step_index + 1 < Len(Steps))
          => /\ cards'[Presented].learning_step_index
                   = cards[Presented].learning_step_index + 1
             /\ cards'[Presented].due
                   = LocalNow + Steps[cards[Presented].learning_step_index + 1]
             /\ InLearning(cards'[Presented], Steps)]_vars

\* a card that passed the first two of three steps and waits out the second
C14_SecondStepPassed ==
    \E c \in DOMAIN cards :
        /\ Steps = <<10, 60, 1440>>
        /\ cards[c].learning_step_index = 2
        /\ cards[c].reps = 0
        /\ cards[c].due = now + utc_offset + 60
        /\ Len(reviews) = 2
        /\ \A i \in DOMAIN reviews :
              reviews[i].duration_sec # Null /\ reviews[i].quality >= 3

\* ease, interval and reps of a row
Triple(r) == [ease |-> r.ease, interval |-> r.interval, reps |-> r.reps]

(***************************************************************************)
(* C15: for a card in Learning whose stepIndex reaches L with a passing    *)
(* grade, the card graduates: stepIndex becomes L, ease, interval and reps *)
(* become the Ease/Interval update of the values of the row graded, and    *)
(* due = now + interval' days (steps [10,1440], reps 0, stepIndex 1,       *)
(* grade 4: interval 1, due = now + 1 day).                                *)
(***************************************************************************)
C15_LearningPassGraduates ==
    [][(/\ CliGraded
        /\ InLearning(Head(session), Steps)
        /\ GradeGiven >= 3
        /\ Head(session).learning_step_index + 1 >= Len(Steps))
          => LET r == Head(session)
                 after == cards'[Presented]
             IN  /\ after.learning_step_index = Len(Steps)
                 /\ Triple(after) = sm2_update(r.ease, r.interval, r.reps, GradeGiven)
                 /\ after.due = LocalNow + after.interval * DayMinutes
                 /\ (r.reps = 0 /\ GradeGiven = 4)
                       => /\ after.interval = 1
                          /\ after.reps = 1
                          /\ after.due = LocalNow + DayMinutes]_vars

\* the scenario's card after its second pass: graduated from [10, 1440] with
\* interval 1, due in one day
C15_Graduated ==
    \E c \in DOMAIN cards :
        /\ Steps = <<10, 1440>>
        /\ Triple(cards[c]) = [ease |-> DefaultEase, interval |-> 1, reps |-> 1]
        /\ cards[c].learning_step_index = 2
        /\ cards[c].due = now + utc_offset + DayMinutes
        /\ Len(reviews) = 2
        /\ \A i \in DOMAIN reviews :
              reviews[i].duration_sec # Null /\ reviews[i].quality = 4

\* the configured step list is a list (json.loads does not raise)
StepsParse == ~json_loads(get_config(config).learning_steps).raised

(***************************************************************************)
(* C16: with the learning-step list held fixed, along the gradings of one  *)
(* card the stepIndex is set to 0 only by a failing grade, otherwise never *)
(* decreases and rises by one per pass of update_schedule until it equals  *)
(* the list length; a Graduated card (reps > 0 and stepIndex = L) is       *)
(* classified as Learning again only after a failing grade.                *)
(***************************************************************************)
C16_GraduationMonotonic ==
    [][(StepsParse /\ UNCHANGED config)
          => \A c \in DOMAIN cards :
                cards[c].learning_step_index <= Len(Steps)
                  => /\ cards'[c].learning_step_index < cards[c].learning_step_index
                          => /\ Graded(c)
                             /\ GradeGiven < 3
                             /\ cards'[c].learning_step_index = 0
                     /\ (Graded(c) /\ ByUpdateSchedule /\ GradeGiven >= 3)
                          => cards'[c].learning_step_index
                                = Min(cards[c].learning_step_index + 1, Len(Steps))
                     /\ (~InLearning(cards[c], Steps) /\ InLearning(cards'[c], Steps))
                          => /\ Graded(c)
                             /\ GradeGiven < 3]_vars

\* a card that graduated from the list [10] with one pass and was then
\* failed: it is in Learning again, its index still at the list length
C16_FailedAfterGraduation ==
    \E c \in DOMAIN cards :
        /\ Steps = <<10>>
        /\ cards[c].learning_step_index = 1
        /\ cards[c].reps = 0
        /\ cards[c].lapses = 1
        /\ Len(reviews) = 2
        /\ reviews[1].quality >= 3 /\ reviews[1].duration_sec # Null
        /\ reviews[2].quality < 3 /\ reviews[2].duration_sec # Null

(***************************************************************************)
(* C17: suspension is sticky: no grading changes a card's suspended flag   *)
(* from true to false, only the explicit unsuspend clears it; suspend and  *)
(* unsuspend are idempotent and change only the suspended flag, leaving    *)
(* lapses, ease, interval, reps, stepIndex and due unchanged.              *)
(***************************************************************************)
C17_SuspensionSticky ==
    [][\A c \in DOMAIN cards :
          /\ (cards[c].suspended = 1 /\ cards'[c].suspended = 0) => Unsuspends(c)
          /\ \A value \in BOOLEAN :
                cmd_suspend(c, value)
                  => /\ cards'[c].suspended = (IF value THEN 1 ELSE 0)
                     /\ Sched(cards'[c]) = Sched(cards[c])
                     /\ cards[c].suspended = (IF value THEN 1 ELSE 0)
                          => UNCHANGED cards]_vars

\* the tag set of a card: the entries of its delimited tag text
TagSet(text) == {parse_tags(text)[i] : i \in DOMAIN parse_tags(text)}

\* the candidate-pool predicate of a row under a deck filter and a tag filter
InPool(r, deck, tags) ==
    /\ r.suspended = 0
    /\ r.due <= now
    /\ (deck # "" => r.deck = deck)
    /\ \A i \in DOMAIN tags : tags[i] \in TagSet(r.tags)

\* the row the web layer's next_due_card returns now, as a sequence
NextDue(deck, tag) == next_due_card(cards, now, deck, tag)

(***************************************************************************)
(* C18: every card that due-set selection returns (fetch_due_cards, and    *)
(* next_due_card in the web layer) is unsuspended, has due <= now, is of   *)
(* the deck of the deck filter when one is given, and its tag set holds    *)
(* every tag of the tag filter when one is given.                          *)
(***************************************************************************)
C18_SelectedWithinPool ==
    /\ \A a \in TagArgs :
          \A i \in DOMAIN Selection(a) : InPool(Selection(a)[i], a.deck, a.tags)
    /\ \A a \in TagArgs :
          /\ \A i \in DOMAIN NextDue(a.deck, <<>>) :
                InPool(NextDue(a.deck, <<>>)[i], a.deck, <<>>)
          /\ \A k \in DOMAIN a.tags :
                \A i \in DOMAIN NextDue(a.deck, a.tags[k]) :
                    InPool(NextDue(a.deck, a.tags[k])[i], a.deck, <<a.tags[k]>>)

(***************************************************************************)
(* C19: for a card in Learning a failing grade (< 3) sets stepIndex to 0,  *)
(* sets due = now + S[0] minutes, raises the lapse count by exactly 1 and  *)
(* leaves ease, interval and reps of the row graded unchanged.             *)
(***************************************************************************)
C19_LearningFailRestarts ==
    [][(/\ CliGraded
        /\ InLearning(Head(session), Steps)
        /\ GradeGiven < 3)
          => LET r == Head(session)
                 after == cards'[Presented]
             IN  /\ after.learning_step_index = 0
                 /\ after.due = LocalNow + Steps[1]
                 /\ after.lapses = r.lapses + 1
                 /\ Triple(after) = Triple(r)]_vars

\* a card passed once and then failed under [10, 60, 1440]: back at step 0,
\* due in 10 minutes, one lapse, still never graduated
C19_FailedInLearning ==
    \E c \in DOMAIN cards :
        /\ Steps = <<10, 60, 1440>>
        /\ cards[c].learning_step_index = 0
        /\ cards[c].lapses = 1
        /\ Triple(cards[c]) = [ease |-> DefaultEase, interval |-> 0, reps |-> 0]
        /\ cards[c].due = now + utc_offset + 10
        /\ Len(reviews) = 2
        /\ reviews[1].quality >= 3 /\ reviews[1].duration_sec # Null
        /\ reviews[2].quality < 3 /\ reviews[2].duration_sec # Null

(***************************************************************************)
(* C20: for a Graduated card (reps > 0 and stepIndex >= L) every grading   *)
(* by update_schedule replaces ease, interval and reps by the              *)
(* Ease/Interval update, sets due = now + interval' days, leaves stepIndex *)
(* unchanged and raises the lapse count by exactly 1 if the grade is < 3   *)
(* and by 0 otherwise; a failing grade yields reps = 0, interval = 1 and   *)
(* due = now + 1 day.                                                      *)
(***************************************************************************)
C20_GraduatedGrading ==
    [][(/\ CliGraded
        /\ ~InLearning(Head(session), Steps))
          => LET r == Head(session)
                 after == cards'[Presented]
             IN  /\ Triple(after) = sm2_update(r.ease, r.interval, r.reps, GradeGiven)
                 /\ after.due = LocalNow + after.interval * DayMinutes
                 /\ after.learning_step_index = r.learning_step_index
                 /\ after.lapses = r.lapses + (IF GradeGiven < 3 THEN 1 ELSE 0)
                 /\ GradeGiven < 3
                      => /\ after.reps = 0
                         /\ after.interval = 1
                         /\ after.ease = r.ease
                         /\ after.due = LocalNow + DayMinutes]_vars

\* a card graduated from the list [10] and failed at its first review: one
\* lapse, reps 0, interval 1, due in one day, index still at the list length
C20_GraduatedFailed ==
    \E c \in DOMAIN cards :
        /\ Steps = <<10>>
        /\ Triple(cards[c]) = [ease |-> DefaultEase, interval |-> 1, reps |-> 0]
        /\ cards[c].learning_step_index = Len(Steps)
        /\ cards[c].lapses = 1
        /\ cards[c].due = now + utc_offset + DayMinutes
        /\ now = DayMinutes
        /\ Len(reviews) = 2
        /\ \A i \in DOMAIN reviews : reviews[i].duration_sec # Null
        /\ reviews[2].quality < 3

(***************************************************************************)
(* C21: with an empty learning-step list grading is immediate graduation:  *)
(* grading a new card (reps 0, stepIndex 0) goes through the Ease/Interval *)
(* model, a first passing grade gives reps 1, interval 1, stepIndex 0 and  *)
(* due = now + 1 day, and the grading completes with the card updated and  *)
(* one review event appended.                                              *)
(***************************************************************************)
C21_EmptyListGraduatesAtOnce ==
    [][(/\ session # <<>>
        /\ StepsParse
        /\ Steps = <<>>
        /\ Head(session).reps = 0
        /\ Head(session).learning_step_index = 0)
          => \A q \in StepInputs.cli_q :
                cmd_review_grade(q, 0)
                  => LET r == Head(session)
                         after == cards'[r.id]
                         sm == sm2_update(r.ease, r.interval, r.reps, q)
                     IN  /\ Len(reviews') = Len(reviews) + 1
                         /\ reviews'[Len(reviews')].card_id = r.id
                         /\ Triple(after) = sm
                         /\ after.learning_step_index = 0
                         /\ after.due = LocalNow + sm.interval * DayMinutes
                         /\ q >= 3 => /\ after.reps = 1
                                      /\ after.interval = 1
                                      /\ after.due = LocalNow + DayMinutes]_vars

\* the whole candidate pool of a selection with arguments a, ordered by
\* (due, id): the rows that match the WHERE clause, with no LIMIT
CandidatePool(a) ==
    OrderRows({cards[i] : i \in {j \in DOMAIN cards :
                                   DueClause(cards[j], now, a.deck, a.tags)}})

\* the new-card cap applied to the whole candidate pool
CappedPool(a) ==
    ApplyCap(CandidatePool(a), 0, get_config(config).new_cap, a.include_new)

(***************************************************************************)
(* C22: with no interleave mode, selection returns exactly the first limit *)
(* elements of the new-card cap applied to the whole candidate pool in     *)
(* (due, id) order: a non-new due card is left out only because limit      *)
(* earlier admitted cards precede it, never because capped-out new cards   *)
(* precede it.                                                             *)
(***************************************************************************)
C22_PlainIsPrefixOfCappedPool ==
    \A a \in SelectArgs :
        a.interleave = "" => Selection(a) = Take(CappedPool(a), a.limit)

(***************************************************************************)
(* C23: with interleave mode 'tag' the selection equals the round-robin    *)
(* over first-tag buckets of the entire capped selection: buckets visited  *)
(* cyclically in first-seen order, each visit emitting the bucket's        *)
(* earliest remaining card, until limit cards are out or every bucket is   *)
(* empty, whatever the size of the candidate pool.                         *)
(***************************************************************************)
C23_InterleaveOverWholePool ==
    \A a \in BulkArgs :
        Selection(a) = RoundRobin(Bucketize(CappedPool(a), <<>>), <<>>, a.limit)

\* the stored row of card c after update_schedule graded it q now, from the
\* stored row itself
AfterUpdateSchedule(c, q) ==
    UpdateScheduleRow(cards, c,
                      update_schedule(config, cards[c], q, LocalNow).row)[c]

\* the stored row of card c after the rate endpoint graded it q now
AfterRate(c, q) ==
    UpdateRateRow(cards, c, rate_values(cards[c], q, LocalNow))[c]

(***************************************************************************)
(* C24: the two grading implementations are equivalent: for every prior    *)
(* card state, configuration and grade, the web rate endpoint leaves the   *)
(* card with the same ease, interval, reps, lapses, learning-step index,   *)
(* suspended flag and due offset as update_schedule.                       *)
(***************************************************************************)
C24_GradingPathsEquivalent ==
    \A c \in DOMAIN cards, q \in LeechInputs.cli_q :
        /\ update_schedule(config, cards[c], q, LocalNow).raised = ""
        /\ Sched(AfterRate(c, q)) = Sched(AfterUpdateSchedule(c, q))
        /\ AfterRate(c, q).suspended = AfterUpdateSchedule(c, q).suspended

\* the row the session hands to update_schedule is the stored row's lapse
\* count: no other grading of the card came between fetch and answer
RowCurrent == Head(session).lapses = cards[Presented].lapses

(***************************************************************************)
(* C25: unsuspend does not reset the lapse count, so a card that is        *)
(* unsuspended with lapses >= leech threshold is suspended again by its    *)
(* next grading through update_schedule, whatever the grade and whatever   *)
(* its learning state, and no selection returns it after that grading.     *)
(***************************************************************************)
C25_UnsuspendedLeechResuspended ==
    [][/\ \A c \in DOMAIN cards :
             Unsuspends(c) => cards'[c].lapses = cards[c].lapses
       /\ (/\ CliGraded
           /\ RowCurrent
           /\ cards[Presented].suspended = 0
           /\ cards[Presented].lapses >= get_config(config).leech_threshold)
             => /\ cards'[Presented].suspended = 1
                /\ \A a \in ResuspendInputs.args :
                      \A i \in DOMAIN SelectionAfter(a) :
                          SelectionAfter(a)[i].id # Presented]_vars

\* a card graduated from the empty list, failed and suspended by the leech
\* rule, then unsuspended and passed twice: graduated, one lapse, suspended
\* again by the passing grade
C25_PassedLeechSuspendedAgain ==
    \E c \in DOMAIN cards :
        /\ get_config(config).leech_threshold = 1
        /\ Steps = <<>>
        /\ cards[c].lapses = 1
        /\ cards[c].suspended = 1
        /\ cards[c].reps = 2
        /\ Len(reviews) = 4
        /\ \A i \in DOMAIN reviews : reviews[i].duration_sec # Null
        /\ reviews[2].quality < 3
        /\ reviews[4].quality >= 3

=============================================================================
